---- MODULE Spec2Model ----
(***************************************************************************)
(* A model of trust_time.js: the document digest (_sha256File), the        *)
(* address derivation (generateAddress and its helpers), the ledger lookup *)
(* (DocumentAddress.verifyTimestamp) and the command-line block that       *)
(* chains them.                                                            *)
(*                                                                         *)
(* Bytes are integers 0..255, a Buffer is a sequence of bytes, a string is *)
(* a sequence of one-character strings.  The two compression functions of  *)
(* node's crypto module are outside the repository: they are represented   *)
(* by fixed deterministic functions with the real output lengths (32 and   *)
(* 20 bytes).  Everything the repository itself computes (version byte,    *)
(* copies, slices, concatenation, hex and base-58 text) is computed byte   *)
(* by byte.                                                                *)
(***************************************************************************)
EXTENDS Integers, Sequences, FiniteSets, TLC

VARIABLES
    pc,            \* position of the run: "main", "reading", "tick", "request", "exited"; "library" in codec runs
    programFile,   \* program.file: <<>> when the argument is absent, <<name>> otherwise
    programVerify, \* program.verify
    fileBytes,     \* the content of the file
    fault,         \* what the file system does to the read stream
    remaining,     \* bytes of the file the stream has not emitted yet
    sha256sum,     \* bytes fed to the hash accumulator by update()
    ended,         \* the stream emitted 'end'
    streamError,   \* the stream emitted 'error'
    documentHash,  \* <<>> or <<digest>>: the value _sha256File passed to its callback
    cbCalls,       \* calls of generateAddressForFile's callback: records [err, result]
    requests,      \* HTTP GETs put on the wire
    reply,         \* <<>> or <<r>>: what the ledger index answered
    vCalls,        \* calls of verifyTimestamp's callback: records [err, date]
    exitCode,      \* <<>> while the process runs, <<code>> once it has ended
    log,           \* the events of the run, in order
    heap,          \* codec runs: the byte a fresh Buffer is filled with
    docHash,       \* codec runs: <<>> or <<d>>, the digest of the latest generateAddress call
    result,        \* codec runs: <<>> or <<r>>, the latest DocumentAddress returned and the heap it ran on
    firstResult    \* codec runs: per digest, <<>> or <<r>>, the same for the first call on that digest

vars == <<pc, programFile, programVerify, fileBytes, fault, remaining, sha256sum, ended,
          streamError, documentHash, cbCalls, requests, reply, vCalls, exitCode, log,
          heap, docHash, result, firstResult>>

cliVars == <<pc, programFile, programVerify, fileBytes, fault, remaining, sha256sum, ended,
             streamError, documentHash, cbCalls, requests, reply, vCalls, exitCode, log>>

codecVars == <<heap, docHash, result, firstResult>>

----------------------------------------------------------------------------
(* Bounds *)

MaxFileLen == 2
MaxTxs == 3

----------------------------------------------------------------------------
(* Buffers *)

Byte == 0..255

\* new Buffer(n): n bytes of whatever the allocator left there.
NewBuffer(n, garbage) == [i \in 1..n |-> garbage]

\* source.copy(target, targetStart): target with source written from index
\* targetStart (0-based), cut at the end of target.
Copy(source, target, targetStart) ==
    [i \in 1..Len(target) |->
        IF i > targetStart /\ i - targetStart <= Len(source)
        THEN source[i - targetStart]
        ELSE target[i]]

\* buffer.slice(start, end), 0-based, end exclusive.
Slice(buffer, start, end) == SubSeq(buffer, start + 1, end)

RECURSIVE ConcatInto(_, _, _)
ConcatInto(list, target, pos) ==
    IF list = <<>> THEN target
    ELSE ConcatInto(Tail(list), Copy(Head(list), target, pos), pos + Len(Head(list)))

\* Buffer.concat(list, totalLength)
BufferConcat(list, totalLength, garbage) ==
    ConcatInto(list, NewBuffer(totalLength, garbage), 0)

HexDigits == <<"0","1","2","3","4","5","6","7","8","9","a","b","c","d","e","f">>

RECURSIVE ToHex(_)
\* buffer.toString('hex')
ToHex(buffer) ==
    IF buffer = <<>> THEN <<>>
    ELSE <<HexDigits[(Head(buffer) \div 16) + 1], HexDigits[(Head(buffer) % 16) + 1]>>
         \o ToHex(Tail(buffer))

----------------------------------------------------------------------------
(* Number conversion on assignment to a buffer index *)

VERSION_BYTE == <<"0", "x", "0", "0">>

DigitValue(c) ==
    CASE c = "0" -> 0 [] c = "1" -> 1 [] c = "2" -> 2 [] c = "3" -> 3
      [] c = "4" -> 4 [] c = "5" -> 5 [] c = "6" -> 6 [] c = "7" -> 7
      [] c = "8" -> 8 [] c = "9" -> 9 [] c = "a" -> 10 [] c = "b" -> 11
      [] c = "c" -> 12 [] c = "d" -> 13 [] c = "e" -> 14 [] c = "f" -> 15
      [] OTHER -> 16

RECURSIVE ParseDigits(_, _, _)
\* the value of the digit string in the radix, or -1 (NaN) on a foreign character
ParseDigits(s, radix, acc) ==
    IF s = <<>> THEN acc
    ELSE IF DigitValue(Head(s)) >= radix THEN -1
    ELSE ParseDigits(Tail(s), radix, ((acc * radix) + DigitValue(Head(s))) % 65536)

\* ToNumber of a string literal: 0x-prefixed hexadecimal or decimal; -1 is NaN.
StringToNumber(s) ==
    IF s = <<>> THEN 0
    ELSE IF Len(s) >= 3 /\ s[1] = "0" /\ s[2] = "x" THEN ParseDigits(SubSeq(s, 3, Len(s)), 16, 0)
    ELSE ParseDigits(s, 10, 0)

\* buf[i] = value for a string value: NaN stores 0, a number stores its low 8 bits.
ToUint8(s) == IF StringToNumber(s) < 0 THEN 0 ELSE StringToNumber(s) % 256

----------------------------------------------------------------------------
(* Hashes *)

RECURSIVE Mix(_, _)
Mix(buffer, acc) ==
    IF buffer = <<>> THEN acc
    ELSE Mix(Tail(buffer), ((acc * 31) + Head(buffer) + 1) % 65521)

\* crypto.createHash('RIPEMD160').update(buffer).digest(): 20 bytes
_ripemd160(buffer) ==
    [i \in 1..20 |-> ((Mix(buffer, 11) % 251) * (i - 1) + ((Mix(buffer, 5) % 3) * (i * i))) % 256]

\* crypto.createHash('SHA256').update(buffer).digest(): 32 bytes
_sha256(buffer) ==
    [i \in 1..32 |-> ((Mix(buffer, 7) + 1) * (i + 2) + (i * i)) % 256]

----------------------------------------------------------------------------
(* Base 58 *)

ALPHABET ==
    <<"1","2","3","4","5","6","7","8","9",
      "A","B","C","D","E","F","G","H","J","K","L","M","N","P","Q","R","S","T","U","V","W","X","Y","Z",
      "a","b","c","d","e","f","g","h","i","j","k","m","n","o","p","q","r","s","t","u","v","w","x","y","z">>

RECURSIVE LeadingZeros(_)
LeadingZeros(buffer) ==
    IF buffer = <<>> \/ Head(buffer) # 0 THEN 0 ELSE 1 + LeadingZeros(Tail(buffer))

RECURSIVE MulAdd(_, _, _, _)
\* digits (least significant first, radix `to`) * from + carry
MulAdd(digits, from, to, carry) ==
    IF digits = <<>>
    THEN IF carry = 0 THEN <<>> ELSE <<carry % to>> \o MulAdd(<<>>, from, to, carry \div to)
    ELSE <<((digits[1] * from) + carry) % to>>
         \o MulAdd(Tail(digits), from, to, ((digits[1] * from) + carry) \div to)

RECURSIVE Convert(_, _, _, _)
\* the number written by `source` (most significant first, radix `from`) as
\* digits of radix `to`, least significant first, no leading zero digit
Convert(source, from, to, digits) ==
    IF source = <<>> THEN digits
    ELSE Convert(Tail(source), from, to, MulAdd(digits, from, to, Head(source)))

Reverse(s) == [i \in 1..Len(s) |-> s[Len(s) + 1 - i]]

\* bs58.encode(buffer)
Base58Encode(buffer) ==
    LET digits == Reverse(Convert(buffer, 256, 58, <<>>))
    IN  [i \in 1..LeadingZeros(buffer) |-> ALPHABET[1]]
        \o [i \in 1..Len(digits) |-> ALPHABET[digits[i] + 1]]

----------------------------------------------------------------------------
(* Address derivation *)

\* _addVersionByte copying one byte too far to the right
_addVersionByte_m(buffer, garbage) ==
    Copy(buffer, [NewBuffer(Len(buffer) + 1, garbage) EXCEPT ![1] = ToUint8(VERSION_BYTE)], 2)

\* TrustTime.prototype._addVersionByte
_addVersionByte(buffer, garbage) ==
    Copy(buffer, [NewBuffer(Len(buffer) + 1, garbage) EXCEPT ![1] = ToUint8(VERSION_BYTE)], 1)

\* _addChecksum with the checksum in front
_addChecksum_m(hash, checksum, garbage) ==
    BufferConcat(<<checksum, hash>>, Len(hash) + Len(checksum), garbage)

\* TrustTime.prototype._addChecksum
_addChecksum(hash, checksum, garbage) ==
    BufferConcat(<<hash, checksum>>, Len(hash) + Len(checksum), garbage)

\* generateAddress taking the checksum from the first SHA-256 instead of the second
generateAddress_m(digest, garbage) ==
    LET hash3 == _ripemd160(digest)
        hash4 == _addVersionByte(hash3, garbage)
        hash5 == _sha256(hash4)
        hash6 == _sha256(hash5)
        checksum == Slice(hash5, 0, 4)
        hash4WithChecksum == _addChecksum(hash4, checksum, garbage)
        base58Encode == Base58Encode(hash4WithChecksum)
        detail == [documentSHA256 |-> ToHex(digest),
                   hash3 |-> ToHex(hash3),
                   hash4 |-> ToHex(hash4),
                   hash5 |-> ToHex(hash5),
                   hash6 |-> ToHex(hash6),
                   checksum |-> ToHex(checksum),
                   hashWithChecksum |-> ToHex(hash4WithChecksum),
                   base58Encode |-> base58Encode]
    IN  [address |-> base58Encode, sha256 |-> detail.documentSHA256, detail |-> detail]

\* TrustTime.prototype.generateAddress, with the DocumentAddress it constructs
generateAddress(digest, garbage) ==
    LET hash3 == _ripemd160(digest)
        hash4 == _addVersionByte(hash3, garbage)
        hash5 == _sha256(hash4)
        hash6 == _sha256(hash5)
        checksum == Slice(hash6, 0, 4)
        hash4WithChecksum == _addChecksum(hash4, checksum, garbage)
        base58Encode == Base58Encode(hash4WithChecksum)
        detail == [documentSHA256 |-> ToHex(digest),
                   hash3 |-> ToHex(hash3),
                   hash4 |-> ToHex(hash4),
                   hash5 |-> ToHex(hash5),
                   hash6 |-> ToHex(hash6),
                   checksum |-> ToHex(checksum),
                   hashWithChecksum |-> ToHex(hash4WithChecksum),
                   base58Encode |-> base58Encode]
    IN  [address |-> base58Encode, sha256 |-> detail.documentSHA256, detail |-> detail]

----------------------------------------------------------------------------
(* Values passed to callbacks *)

\* err === null
Null == [type |-> "null", message |-> ""]

\* an Error object built by the HTTP client
Error(message) == [type |-> "Error", message |-> message]

\* a string used as an error
StringError(message) == [type |-> "string", message |-> message]

\* what the HTTP client can report: no connection, a non-2xx status, a body that is not JSON
TransportErrors == {Error("ECONNREFUSED"), Error("InternalServerError"), Error("Invalid JSON")}

----------------------------------------------------------------------------
(* The digest of a file: TrustTime.prototype._sha256File *)

\* update forgetting what the accumulator has seen
Update_m(accumulator, data) == data

\* sha256sum.update(data): the accumulator has seen its earlier input, then data
Update(accumulator, data) == accumulator \o data

\* sha256sum.digest()
Digest(accumulator) == _sha256(accumulator)

\* fs.ReadStream(fileName) emits 'data' with the next bytes of the file
StreamData ==
    /\ pc = "reading"
    /\ fault # "open"
    /\ remaining # <<>>
    /\ \E n \in 1..Len(remaining) :
          /\ sha256sum' = Update(sha256sum, SubSeq(remaining, 1, n))
          /\ remaining' = SubSeq(remaining, n + 1, Len(remaining))
    /\ log' = Append(log, "data")
    /\ UNCHANGED <<pc, programFile, programVerify, fileBytes, fault, ended, streamError,
                   documentHash, cbCalls, requests, reply, vCalls, exitCode>>
    /\ UNCHANGED codecVars

\* the stream emits 'end': the digest goes to the callback, which is the
\* waterfall's step to its second task, and that task schedules a tick
StreamEnd ==
    /\ pc = "reading"
    /\ fault = "none"
    /\ remaining = <<>>
    /\ ended' = TRUE
    /\ documentHash' = <<Digest(sha256sum)>>
    /\ pc' = "tick"
    /\ log' = Append(log, "end")
    /\ UNCHANGED <<programFile, programVerify, fileBytes, fault, remaining, sha256sum,
                   streamError, cbCalls, requests, reply, vCalls, exitCode>>
    /\ UNCHANGED codecVars

\* the stream emits 'error' (the file cannot be opened, or a read fails):
\* _sha256File registered no 'error' listener, so the emitter throws, nothing
\* catches it, and the process ends with the status of an uncaught exception
StreamError ==
    /\ pc = "reading"
    /\ fault # "none"
    /\ streamError' = TRUE
    /\ pc' = "exited"
    /\ exitCode' = <<1>>
    /\ log' = Append(log, "error")
    /\ UNCHANGED <<programFile, programVerify, fileBytes, fault, remaining, sha256sum,
                   ended, documentHash, cbCalls, requests, reply, vCalls>>
    /\ UNCHANGED codecVars

----------------------------------------------------------------------------
(* The ledger lookup: DocumentAddress.prototype.verifyTimestamp *)

\* the retry option of the request
retry == 0

\* a JavaScript number: NaN, or an integer
NaN == [nan |-> TRUE, v |-> 0]
Num(n) == [nan |-> FALSE, v |-> n]

\* Number(x) of a transaction, an object without valueOf: via "[object Object]", NaN
ToNumber(tx) == NaN

\* a - b
Minus(a, b) == IF a.nan \/ b.nan THEN NaN ELSE Num(a.v - b.v)

\* the comparator handed to sort
comparefn(a, b) == Minus(ToNumber(a), ToNumber(b))

\* what sort makes of a comparator's answer: NaN counts as 0
SortCompare(a, b) == IF comparefn(a, b).nan THEN 0 ELSE comparefn(a, b).v

RECURSIVE Insert(_, _)
\* one pass of the insertion: element moves left past every entry that compares greater
Insert(sorted, element) ==
    IF sorted = <<>> THEN <<element>>
    ELSE IF SortCompare(sorted[Len(sorted)], element) > 0
         THEN Append(Insert(SubSeq(sorted, 1, Len(sorted) - 1), element), sorted[Len(sorted)])
         ELSE Append(sorted, element)

RECURSIVE ArraySort(_)
\* data.txs.sort(comparefn)
ArraySort(array) ==
    IF array = <<>> THEN <<>>
    ELSE Insert(ArraySort(SubSeq(array, 1, Len(array) - 1)), array[Len(array)])

\* !data || !data.txs || data.txs.length === 0
NotSeen(data) == data.kind = "null" \/ ~data.hasTxs \/ Len(data.txs) = 0

\* the function handed to client.get reporting a transport failure under its own message
verifyTimestampCallback_wrap(err, data) ==
    IF err # Null THEN [err |-> StringError("Fail to query the network"), date |-> <<>>]
    ELSE IF NotSeen(data)
         THEN [err |-> StringError("Address not seen in the network"), date |-> <<>>]
         ELSE [err |-> Null, date |-> <<ArraySort(data.txs)[1].time * 1000>>]

\* the function handed to client.get passing err before it is set
verifyTimestampCallback_m(err, data) ==
    IF err # Null THEN [err |-> err, date |-> <<>>]
    ELSE IF NotSeen(data)
         THEN [err |-> err, date |-> <<>>]
         ELSE [err |-> Null, date |-> <<ArraySort(data.txs)[1].time * 1000>>]

\* the function handed to client.get: the arguments it calls callback with
\* (date is <<>> when the callback gets no second argument, else <<milliseconds>>)
verifyTimestampCallback(err, data) ==
    IF err # Null THEN [err |-> err, date |-> <<>>]
    ELSE IF NotSeen(data)
         THEN [err |-> StringError("Address not seen in the network"), date |-> <<>>]
         ELSE [err |-> Null, date |-> <<ArraySort(data.txs)[1].time * 1000>>]

----------------------------------------------------------------------------
(* What the ledger index can answer *)

Times == {100, 300, 500}

RECURSIVE SeqsUpTo(_, _)
SeqsUpTo(S, n) ==
    IF n = 0 THEN {<<>>}
    ELSE SeqsUpTo(S, n - 1) \cup {Append(q, x) : q \in {r \in SeqsUpTo(S, n - 1) : Len(r) = n - 1}, x \in S}

Transactions == {[time |-> t] : t \in Times}

NoData == [kind |-> "null", hasTxs |-> FALSE, txs |-> <<>>]

Bodies ==
    {NoData, [kind |-> "object", hasTxs |-> FALSE, txs |-> <<>>]}
    \cup {[kind |-> "object", hasTxs |-> TRUE, txs |-> q] : q \in SeqsUpTo(Transactions, MaxTxs)}

Replies ==
    {[err |-> e, data |-> NoData] : e \in TransportErrors}
    \cup {[err |-> Null, data |-> b] : b \in Bodies}

----------------------------------------------------------------------------
(* The command-line block *)

Garbage == {0, 170}

FileBytes == {0, 255}

Contents == SeqsUpTo(FileBytes, MaxFileLen)

Init ==
    /\ pc = "main"
    /\ programFile \in {<<>>, <<"document">>}
    /\ programVerify \in BOOLEAN
    /\ fileBytes \in Contents
    /\ fault \in {"none", "open", "read"}
    /\ programFile = <<>> => fileBytes = <<>> /\ fault = "none"
    /\ remaining = <<>>
    /\ sha256sum = <<>>
    /\ ended = FALSE
    /\ streamError = FALSE
    /\ documentHash = <<>>
    /\ cbCalls = <<>>
    /\ requests = 0
    /\ reply = <<>>
    /\ vCalls = <<>>
    /\ exitCode = <<>>
    /\ log = <<>>
    /\ heap = 0
    /\ docHash = <<>>
    /\ result = <<>>
    /\ firstResult = <<>>

\* no --file: the message, then program.help(), which prints the help and
\* ends the process itself with status 0; the process.exit(1) after it is
\* never reached
MainNoFile ==
    /\ pc = "main"
    /\ programFile = <<>>
    /\ pc' = "exited"
    /\ exitCode' = <<0>>
    /\ log' = Append(log, "help")
    /\ UNCHANGED <<programFile, programVerify, fileBytes, fault, remaining, sha256sum, ended,
                   streamError, documentHash, cbCalls, requests, reply, vCalls>>
    /\ UNCHANGED codecVars

\* the command-line block asking the ledger without waiting for the address
MainStart_m ==
    /\ pc = "main"
    /\ programFile # <<>>
    /\ sha256sum' = <<>>
    /\ remaining' = fileBytes
    /\ pc' = "reading"
    /\ requests' = requests + 1
    /\ log' = log \o <<"open", "query">>
    /\ UNCHANGED <<programFile, programVerify, fileBytes, fault, ended, streamError,
                   documentHash, cbCalls, reply, vCalls, exitCode>>
    /\ UNCHANGED codecVars

\* generateAddressForFile: the waterfall's first task, _sha256File, creates
\* the accumulator and opens the stream
MainStart ==
    /\ pc = "main"
    /\ programFile # <<>>
    /\ sha256sum' = <<>>
    /\ remaining' = fileBytes
    /\ pc' = "reading"
    /\ log' = Append(log, "open")
    /\ UNCHANGED <<programFile, programVerify, fileBytes, fault, ended, streamError,
                   documentHash, cbCalls, requests, reply, vCalls, exitCode>>
    /\ UNCHANGED codecVars

\* the callback given to generateAddressForFile, up to its return: what the
\* process does next (get: the GETs it issues; exit: <<>> or the status the
\* process ends with, 0 when it just runs out of work)
cliCallback(err, verify) ==
    IF err # Null THEN [pc |-> "exited", get |-> 0, exit |-> <<0>>]
    ELSE IF verify THEN [pc |-> "request", get |-> 1, exit |-> <<>>]
    ELSE [pc |-> "exited", get |-> 0, exit |-> <<0>>]

\* the tick of the waterfall's second task: generateAddress, then the final
\* callback with its result
Tick ==
    /\ pc = "tick"
    /\ \E garbage \in Garbage :
          LET call == [err |-> Null, result |-> <<generateAddress(documentHash[1], garbage)>>]
              next == cliCallback(call.err, programVerify)
          IN  /\ cbCalls' = Append(cbCalls, call)
              /\ pc' = next.pc
              /\ requests' = requests + next.get
              /\ exitCode' = next.exit
              /\ log' = log \o <<"address">> \o [i \in 1..next.get |-> "query"]
    /\ UNCHANGED <<programFile, programVerify, fileBytes, fault, remaining, sha256sum, ended,
                   streamError, documentHash, reply, vCalls>>
    /\ UNCHANGED codecVars

\* the answer to the GET: a failed attempt is repeated while the retry option
\* allows; otherwise the function handed to client.get runs, then the
\* callback given to verifyTimestamp, which ends the process
Response ==
    /\ pc = "request"
    /\ \E r \in Replies :
          IF r.err \in TransportErrors /\ requests <= retry
          THEN /\ requests' = requests + 1
               /\ log' = Append(log, "query")
               /\ UNCHANGED <<pc, reply, vCalls, exitCode>>
          ELSE LET call == verifyTimestampCallback(r.err, r.data)
               IN  /\ reply' = <<r>>
                   /\ vCalls' = Append(vCalls, call)
                   /\ exitCode' = IF call.err # Null THEN <<1>> ELSE <<0>>
                   /\ pc' = "exited"
                   /\ log' = Append(log, "reply")
                   /\ UNCHANGED requests
    /\ UNCHANGED <<programFile, programVerify, fileBytes, fault, remaining, sha256sum, ended,
                   streamError, documentHash, cbCalls>>
    /\ UNCHANGED codecVars

Next == MainNoFile \/ MainStart \/ StreamData \/ StreamEnd \/ StreamError \/ Tick \/ Response

Spec == Init /\ [][Next]_vars

----------------------------------------------------------------------------
(* generateAddress as a library call, any number of times *)

Ramp == [i \in 1..32 |-> i - 1]

Digests == {[i \in 1..32 |-> 0], Ramp, _sha256(<<0, 255>>)}

CodecInit ==
    /\ pc = "library"
    /\ programFile = <<>>
    /\ programVerify = FALSE
    /\ fileBytes = <<>>
    /\ fault = "none"
    /\ remaining = <<>>
    /\ sha256sum = <<>>
    /\ ended = FALSE
    /\ streamError = FALSE
    /\ documentHash = <<>>
    /\ cbCalls = <<>>
    /\ requests = 0
    /\ reply = <<>>
    /\ vCalls = <<>>
    /\ exitCode = <<>>
    /\ log = <<>>
    /\ heap \in Garbage
    /\ docHash = <<>>
    /\ result = <<>>
    /\ firstResult = [d \in Digests |-> <<>>]

\* one call of generateAddress(d)
CallGenerateAddress ==
    /\ pc = "library"
    /\ \E d \in Digests :
          /\ docHash' = <<d>>
          /\ result' = <<[value |-> generateAddress(d, heap), heap |-> heap]>>
          /\ firstResult' = IF firstResult[d] = <<>>
                             THEN [firstResult EXCEPT ![d] = result']
                             ELSE firstResult
    /\ UNCHANGED heap
    /\ UNCHANGED cliVars

\* other code of the process runs between two calls and leaves other bytes in freed memory
Reuse ==
    /\ pc = "library"
    /\ \E g \in Garbage \ {heap} : heap' = g
    /\ UNCHANGED <<docHash, result, firstResult>>
    /\ UNCHANGED cliVars

CodecNext == CallGenerateAddress \/ Reuse

CodecSpec == CodecInit /\ [][CodecNext]_vars

----------------------------------------------------------------------------
(* Properties *)

AlphabetIndex(c) == CHOOSE i \in 1..Len(ALPHABET) : ALPHABET[i] = c

\* the bytes a base-58 string stands for
Base58Decode(string) ==
    LET digits == [i \in 1..Len(string) |-> AlphabetIndex(string[i]) - 1]
    IN  [i \in 1..LeadingZeros(digits) |-> 0] \o Reverse(Convert(digits, 58, 256, <<>>))

MinTime(txs) ==
    CHOOSE t \in {txs[i].time : i \in 1..Len(txs)} : \A i \in 1..Len(txs) : t <= txs[i].time

Count(event) == Cardinality({i \in 1..Len(log) : log[i] = event})

First(event) == IF Count(event) = 0 THEN 0 ELSE CHOOSE i \in 1..Len(log) : log[i] = event /\ \A j \in 1..(i - 1) : log[j] # event

Answered == reply # <<>> /\ reply[1].err = Null

\* C1: whenever the ledger answers with a non-empty transaction list, the
\* callback of verifyTimestamp gets no error and the date of the smallest
\* time in the list, whatever the order of the list.
C1_EarliestSelected ==
    (Answered /\ ~NotSeen(reply[1].data))
        => vCalls = <<[err |-> Null, date |-> <<MinTime(reply[1].data.txs) * 1000>>]>>

\* C2: once the stream has failed (open or read), the callback given to
\* generateAddressForFile has been called with an error and without a
\* DocumentAddress, and no digest was delivered.
C2_IOErrorReported ==
    streamError => /\ Len(cbCalls) = 1
                   /\ cbCalls[1].err # Null
                   /\ cbCalls[1].result = <<>>
                   /\ documentHash = <<>>

Failure ==
    \/ programFile = <<>>
    \/ streamError
    \/ cbCalls # <<>> /\ cbCalls[1].err # Null
    \/ vCalls # <<>> /\ vCalls[1].err # Null

\* C3: a run that has ended has exit code 1 if it failed (no --file, a
\* digest error, a verification error) and exit code 0 otherwise.
C3_ExitCodes ==
    exitCode # <<>> => exitCode[1] = (IF Failure THEN 1 ELSE 0)

\* C4: when the ledger's answer parses and has no transaction, the callback
\* of verifyTimestamp is called once, with the string "Address not seen in
\* the network" as error and no date, and that error equals no error the
\* transport can report.
C4_NotSeenError ==
    (Answered /\ NotSeen(reply[1].data))
        => /\ vCalls = <<[err |-> StringError("Address not seen in the network"), date |-> <<>>]>>
           /\ vCalls[1].err \notin TransportErrors
           /\ \A e \in TransportErrors : e.type # vCalls[1].err.type

C4_Witness ==
    /\ Answered
    /\ reply[1].data = [kind |-> "object", hasTxs |-> TRUE, txs |-> <<>>]
    /\ vCalls # <<>>

\* C5: a run issues at most one GET, exactly one once verifyTimestamp was
\* called; when the transport fails, the callback of verifyTimestamp is
\* called once with that very error and no date, and the count stays at one.
C5_SingleRequest ==
    /\ requests <= 1
    /\ Count("query") = requests
    /\ pc = "request" => requests = 1
    /\ (reply # <<>> /\ reply[1].err \in TransportErrors)
          => /\ vCalls = <<[err |-> reply[1].err, date |-> <<>>]>>
             /\ requests = 1

C5_Witness ==
    /\ reply # <<>>
    /\ reply[1].err = Error("ECONNREFUSED")
    /\ vCalls # <<>>
    /\ requests = 1

\* C6: a GET is issued only after the address was derived, and the address
\* is derived only after the stream has ended and the digest was delivered:
\* in the order of events, 'end' precedes the address, which precedes the query.
C6_Ordering ==
    /\ requests > 0 => cbCalls # <<>> /\ documentHash # <<>>
    /\ cbCalls # <<>> => documentHash # <<>> /\ ended /\ remaining = <<>>
    /\ Count("query") > 0 => 0 < First("address") /\ First("address") < First("query")
    /\ Count("address") > 0 => 0 < First("end") /\ First("end") < First("address")
    /\ Count("data") > 0 /\ Count("address") > 0
          => \A i \in 1..Len(log) : log[i] = "data" => i < First("address")

C6_Witness ==
    /\ requests = 1
    /\ reply # <<>>
    /\ Count("data") = 2
    /\ log[Len(log)] = "reply"

\* the 25 bytes the address of a digest stands for
Expected(digest) ==
    <<0>> \o _ripemd160(digest)
          \o SubSeq(_sha256(_sha256(<<0>> \o _ripemd160(digest))), 1, 4)

\* C7: for every digest, the value generateAddress encodes is 25 bytes:
\* byte 0 is 0x00, bytes 1..20 are RIPEMD160(digest), bytes 21..24 are the
\* first 4 bytes of SHA256(SHA256(0x00 ++ RIPEMD160(digest))); the trace
\* holds its hex text and the address is its base-58 text.
C7_Layout ==
    result # <<>>
        => LET r == result[1].value
               bytes == Base58Decode(r.address)
           IN  /\ Len(r.detail.hashWithChecksum) = 50
               /\ r.detail.hashWithChecksum = ToHex(Expected(docHash[1]))
               /\ Len(bytes) = 25
               /\ bytes[1] = 0
               /\ SubSeq(bytes, 2, 21) = _ripemd160(docHash[1])
               /\ SubSeq(bytes, 22, 25) = SubSeq(_sha256(_sha256(<<0>> \o _ripemd160(docHash[1]))), 1, 4)

C7_Witness ==
    /\ result # <<>>
    /\ docHash = <<Ramp>>
    /\ result[1].heap = 170

\* C8: for every address generateAddress returns, the base-58 decoding of
\* the address without its last 4 bytes begins with 0x00, and the first 4
\* bytes of its double SHA-256 are the 4 bytes taken off.
C8_ChecksumValid ==
    result # <<>>
        => LET decoded == Base58Decode(result[1].value.address)
               payload == SubSeq(decoded, 1, Len(decoded) - 4)
               stripped == SubSeq(decoded, Len(decoded) - 3, Len(decoded))
           IN  /\ Len(decoded) > 4
               /\ payload[1] = 0
               /\ SubSeq(_sha256(_sha256(payload)), 1, 4) = stripped

\* an address whose payload has a second leading zero byte
C8_Witness ==
    /\ result # <<>>
    /\ SubSeq(result[1].value.address, 1, 2) = <<"1", "1">>

\* C9: a call of generateAddress returns what the first call on the same
\* digest returned (address, sha256 and every field of the trace), whatever
\* calls were made in between and whatever fresh buffers hold.
C9_Deterministic ==
    result # <<>>
        => /\ firstResult[docHash[1]] # <<>>
           /\ firstResult[docHash[1]][1].value = result[1].value

C9_Witness ==
    /\ result # <<>>
    /\ firstResult[docHash[1]] # <<>>
    /\ firstResult[docHash[1]][1].heap # result[1].heap
    /\ \E d \in Digests : d # docHash[1] /\ firstResult[d] # <<>>

\* C10: the digest _sha256File delivers is the SHA-256 of the file's bytes,
\* however the stream cut them into chunks, and it is delivered only once the
\* stream has ended and every byte has been fed to the accumulator.
C10_ChunkIndependent ==
    documentHash # <<>>
        => /\ documentHash[1] = _sha256(fileBytes)
           /\ ended
           /\ remaining = <<>>
           /\ sha256sum = fileBytes
           /\ Count("end") = 1
           /\ \A i \in 1..Len(log) : log[i] = "data" => i < First("end")

C10_Witness ==
    /\ documentHash # <<>>
    /\ Len(fileBytes) = 2
    /\ Count("data") = 2

====
